---- MODULE Spec2Model ----
(***************************************************************************)
(* Model of github.com/andreyvit/assert (assert.go).                       *)
(*                                                                         *)
(* Every exported function of the package is one action: the action draws  *)
(* the call's arguments from bounded sets, runs the function body on a     *)
(* fresh recording TB and stores the arguments, the TB's call log and the  *)
(* way the call ended (returned value or panic).  The package keeps no     *)
(* state between calls, so a behaviour is a single call.                   *)
(*                                                                         *)
(* Go values are records [t |-> <Go type name>, v |-> <payload>].  A Go    *)
(* string is a sequence of chunks; a chunk is literal text without '%' or  *)
(* one of the verbs "%v" "%d" "%s" "%T".  Text(s) is the string's text.    *)
(***************************************************************************)
EXTENDS Integers, Sequences, FiniteSets, TLC

VARIABLES op, actual, expected, tail, calls, returned, ret, fault, fRuns, panicnil,
          prefixRuns

vars == <<op, actual, expected, tail, calls, returned, ret, fault, fRuns, panicnil,
          prefixRuns>>

---------------------------------------------------------------------------
(* Bounds of the model. *)

\* longest list of printf arguments after a format string
MaxArgs == 2
\* longest slice / largest map drawn as an operand
MaxLen == 2
\* longest chain of wrapped errors
MaxChain == 3

---------------------------------------------------------------------------
(* Go values. *)

NilV == [t |-> "nil"]
BoolV(b) == [t |-> "bool", v |-> b]
IntV(n) == [t |-> "int", v |-> n]
StrV(s) == [t |-> "string", v |-> s]
SliceV(isnil, s) == [t |-> "[]int", isnil |-> isnil, v |-> s]
MapV(isnil, m) == [t |-> "map[int]int", isnil |-> isnil, v |-> m]
PtrV(isnil, n) == [t |-> "*int", isnil |-> isnil, v |-> n]
TimeV(instant, loc) == [t |-> "time.Time", v |-> [instant |-> instant, loc |-> loc]]
ErrV(chain) == [t |-> "error", v |-> chain]
PatternV(wild, n) == [t |-> "Pattern", v |-> [wild |-> wild, n |-> n]]
\* the tests' panicOnString{}: a struct whose String method panics
PanicOnStringV == [t |-> "assert_test.panicOnString"]

IsNil(x) == x.t = "nil"

Verbs == {"%v", "%d", "%s", "%T"}

RECURSIVE Text(_)
Text(s) == IF s = <<>> THEN "" ELSE Head(s) \o Text(Tail(s))

RECURSIVE Join(_, _)
Join(ss, sep) ==
    IF ss = <<>> THEN ""
    ELSE IF Len(ss) = 1 THEN ss[1]
    ELSE ss[1] \o sep \o Join(Tail(ss), sep)

RECURSIVE SortedKeys(_)
SortedKeys(S) ==
    IF S = {} THEN <<>>
    ELSE LET k == CHOOSE x \in S : \A y \in S : x <= y
         IN <<k>> \o SortedKeys(S \ {k})

TypeName(x) == IF IsNil(x) THEN "<nil>" ELSE x.t

\* fmt's rendering of a value under %v (also fmt.Sprint of one value)
FormatV(x) ==
    CASE x.t = "nil" -> "<nil>"
      [] x.t = "bool" -> IF x.v THEN "true" ELSE "false"
      [] x.t = "int" -> ToString(x.v)
      [] x.t = "string" -> Text(x.v)
      [] x.t = "error" -> Head(x.v).msg
      [] x.t = "[]int" -> "[" \o Join([i \in 1..Len(x.v) |-> ToString(x.v[i])], " ") \o "]"
      [] x.t = "map[int]int" ->
            LET ks == SortedKeys(DOMAIN x.v)
            IN "map[" \o Join([i \in 1..Len(ks) |->
                                  ToString(ks[i]) \o ":" \o ToString(x.v[ks[i]])], " ") \o "]"
      [] x.t = "time.Time" -> "T" \o ToString(x.v.instant) \o " " \o x.v.loc
      [] x.t = "Pattern" -> IF x.v.wild THEN "*" ELSE ToString(x.v.n)
      [] x.t = "assert_test.panicOnString" ->
            "%!v(PANIC=String method: String() should not be called)"

VerbChar(verb) ==
    CASE verb = "%v" -> "v" [] verb = "%d" -> "d" [] verb = "%s" -> "s" [] verb = "%T" -> "T"

BadVerb(verb, x) ==
    IF IsNil(x) THEN "%!" \o VerbChar(verb) \o "(<nil>)"
    ELSE "%!" \o VerbChar(verb) \o "(" \o TypeName(x) \o "="
         \o (IF x.t = "assert_test.panicOnString" THEN "{}" ELSE FormatV(x)) \o ")"

\* fmt's rendering of one operand under one verb
FormatArg(verb, x) ==
    CASE verb = "%v" -> FormatV(x)
      [] verb = "%T" -> TypeName(x)
      [] verb = "%d" -> IF x.t = "int" THEN FormatV(x) ELSE BadVerb(verb, x)
      [] verb = "%s" -> IF x.t \in {"string", "error", "time.Time", "Pattern"} THEN FormatV(x)
                        ELSE IF x.t = "assert_test.panicOnString"
                        THEN "%!s(PANIC=String method: String() should not be called)"
                        ELSE BadVerb(verb, x)

Extra(args, argNum) ==
    IF argNum >= Len(args) THEN ""
    ELSE "%!(EXTRA "
         \o Join([i \in 1..(Len(args) - argNum) |->
                    LET x == args[argNum + i]
                    IN IF IsNil(x) THEN "<nil>" ELSE TypeName(x) \o "=" \o FormatV(x)], ", ")
         \o ")"

RECURSIVE doPrintf(_, _, _)
doPrintf(format, args, argNum) ==
    IF format = <<>> THEN Extra(args, argNum)
    ELSE IF Head(format) \notin Verbs
         THEN Head(format) \o doPrintf(Tail(format), args, argNum)
    ELSE IF argNum >= Len(args)
         THEN "%!" \o VerbChar(Head(format)) \o "(MISSING)" \o doPrintf(Tail(format), args, argNum)
    ELSE FormatArg(Head(format), args[argNum + 1]) \o doPrintf(Tail(format), args, argNum + 1)

\* fmt.Sprintf(format, args...)
Sprintf(format, args) == doPrintf(format, args, 0)

---------------------------------------------------------------------------
(* The way a call ends: it returns a value, or it panics with one.  t is   *)
(* the TB's call log at that point, formatted the number of times          *)
(* FormatPrefix was entered.                                               *)

Return(t, v) == [t |-> t, returned |-> TRUE, ret |-> v, fault |-> <<>>, formatted |-> 0]
Panic(t, v) == [t |-> t, returned |-> FALSE, ret |-> NilV, fault |-> <<v>>, formatted |-> 0]
\* the way `out`, with FormatPrefix entered n times on the way
Formatting(out, n) == [out EXCEPT !.formatted = @ + n]

---------------------------------------------------------------------------
(* The message formatter. *)

\* the value FormatPrefix panics with: the error that fmt.Errorf builds
FormatPrefixPanic(x) ==
    ErrV(<<[id |-> "fmt.Errorf",
            msg |-> Sprintf(<<"when passing messageAndArgs to assertion funcs, the first extra argument must be a format string, got ",
                              "%T", " ", "%v">>, <<x, x>>)]>>)

\* FormatPrefix without the ": " it appends
FormatPrefixNoSeparator(messageAndArgs) ==
    IF Len(messageAndArgs) = 0 THEN Return(<<>>, "")
    ELSE IF messageAndArgs[1].t = "string"
         THEN Return(<<>>, Sprintf(messageAndArgs[1].v, Tail(messageAndArgs)))
    ELSE Panic(<<>>, FormatPrefixPanic(messageAndArgs[1]))

FormatPrefix(messageAndArgs) ==
    Formatting(
      IF Len(messageAndArgs) = 0 THEN Return(<<>>, "")
      ELSE IF messageAndArgs[1].t = "string"
           THEN Return(<<>>, Sprintf(messageAndArgs[1].v, Tail(messageAndArgs)) \o ": ")
      ELSE Panic(<<>>, FormatPrefixPanic(messageAndArgs[1])),
      1)

\* AddPrefix that never merges the prefix into the caller's format string
AddPrefixNoSplice(messageAndArgs, prefix, args) ==
    <<StrV(prefix)>> \o args \o messageAndArgs

AddPrefix(messageAndArgs, prefix, args) ==
    IF Len(messageAndArgs) > 0 /\ messageAndArgs[1].t = "string"
    THEN <<StrV(prefix \o <<": ">> \o messageAndArgs[1].v)>> \o args \o Tail(messageAndArgs)
    ELSE <<StrV(prefix)>> \o args \o messageAndArgs

---------------------------------------------------------------------------
(* The reporting capability TB: a recorder of the calls made on it.  Errorf *)
(* renders its format as testing.T and the tests' fakeTB do.               *)

Helper(t) == Append(t, [m |-> "Helper"])
Errorf(t, format, args) == Append(t, [m |-> "Errorf", text |-> Sprintf(format, args)])

\* t.Errorf("** %s...", FormatPrefix(messageAndArgs), args...); return false
\* FormatPrefix is evaluated before Errorf is entered: its panic leaves the call.
ErrorfReturnFalse(t, format, messageAndArgs, args) ==
    LET p == FormatPrefix(messageAndArgs)
    IN IF ~p.returned THEN Formatting(Panic(t, p.fault[1]), p.formatted)
       ELSE Formatting(Return(Errorf(t, format, <<StrV(<<p.ret>>)>> \o args), FALSE),
                       p.formatted)

---------------------------------------------------------------------------
(* Comparisons. *)

\* Go's == on two values of one comparable type (dynamic types for T = any)
GoEq(x, y) ==
    /\ x.t = y.t
    /\ CASE x.t = "nil" -> TRUE
         [] x.t = "string" -> Text(x.v) = Text(y.v)
         [] OTHER -> x.v = y.v

\* reflect.DeepEqual on two values of one type
ReflectDeepEqual(x, y) ==
    /\ x.t = y.t
    /\ CASE x.t \in {"[]int", "map[int]int"} -> x.isnil = y.isnil /\ x.v = y.v
         [] OTHER -> GoEq(x, y)

\* recv.Equal(arg) of the operand types that have an Equal method:
\* time.Time compares instants; Pattern is a caller's type whose Equal is
\* not symmetric (a wildcard accepts everything).
Equal(recv, arg) ==
    CASE recv.t = "time.Time" -> recv.v.instant = arg.v.instant
      [] recv.t = "Pattern" -> recv.v.wild \/ recv.v = arg.v

\* var zero T
ZeroValue(T) ==
    CASE T = "int" -> IntV(0)
      [] T = "bool" -> BoolV(FALSE)
      [] T = "string" -> StrV(<<>>)
      [] T = "any" -> NilV

\* errors.Is(a, e) for non-nil a and e: e is a itself or one of the errors a wraps
ErrorsIs(a, e) == \E i \in 1..Len(a.v) : SubSeq(a.v, i, Len(a.v)) = e.v

---------------------------------------------------------------------------
(* The assertions.  t is the TB's call log when the function is entered;  *)
(* the result holds the log when it is left.                              *)

OK(t, a, messageAndArgs) ==
    IF ~a.v
    THEN ErrorfReturnFalse(Helper(t), <<"** ", "%s", "got false, wanted true">>,
                           messageAndArgs, <<>>)
    ELSE Return(t, TRUE)

False(t, a, messageAndArgs) ==
    IF a.v
    THEN ErrorfReturnFalse(Helper(t), <<"** ", "%s", "got true, wanted false">>,
                           messageAndArgs, <<>>)
    ELSE Return(t, TRUE)

Eq(t, a, e, messageAndArgs) ==
    IF ~GoEq(a, e)
    THEN ErrorfReturnFalse(Helper(t), <<"** ", "%s", "got ", "%v", ", wanted ", "%v">>,
                           messageAndArgs, <<a, e>>)
    ELSE Return(t, TRUE)

NotEq(t, a, e, messageAndArgs) ==
    IF GoEq(a, e)
    THEN ErrorfReturnFalse(Helper(t), <<"** ", "%s", "got ", "%v", ", wanted anything else">>,
                           messageAndArgs, <<a>>)
    ELSE Return(t, TRUE)

DeepEqual(t, a, e, messageAndArgs) ==
    IF ~ReflectDeepEqual(a, e)
    THEN ErrorfReturnFalse(Helper(t), <<"** ", "%s", "got ", "%v", ", wanted ", "%v">>,
                           messageAndArgs, <<a, e>>)
    ELSE Return(t, TRUE)

NotDeepEqual(t, a, e, messageAndArgs) ==
    IF ReflectDeepEqual(a, e)
    THEN ErrorfReturnFalse(Helper(t), <<"** ", "%s", "got ", "%v", ", wanted anything else">>,
                           messageAndArgs, <<a>>)
    ELSE Return(t, TRUE)

MethodEqual(t, a, e, messageAndArgs) ==
    LET t1 == Helper(t)
    IN IF ~Equal(e, a)
       THEN ErrorfReturnFalse(t1, <<"** ", "%s", "got ", "%v", ", wanted ", "%v">>,
                              messageAndArgs, <<a, e>>)
       ELSE Return(t1, TRUE)

NotMethodEqual(t, a, e, messageAndArgs) ==
    LET t1 == Helper(t)
    IN IF Equal(e, a)
       THEN ErrorfReturnFalse(t1, <<"** ", "%s", "got ", "%v", ", wanted anything else">>,
                              messageAndArgs, <<a>>)
       ELSE Return(t1, TRUE)

Nil(t, a, messageAndArgs) ==
    IF ~a.isnil
    THEN ErrorfReturnFalse(Helper(t), <<"** ", "%s", "got &", "%v", ", wanted nil">>,
                           messageAndArgs, <<IntV(a.v)>>)
    ELSE Return(t, TRUE)

NonNil(t, a, messageAndArgs) ==
    IF a.isnil
    THEN ErrorfReturnFalse(Helper(t), <<"** ", "%s", "got nil ", "%T", ", wanted non-nil">>,
                           messageAndArgs, <<a>>)
    ELSE Return(t, TRUE)

Zero(t, T, a, messageAndArgs) ==
    LET zero == ZeroValue(T)
    IN IF ~GoEq(a, zero)
       THEN ErrorfReturnFalse(Helper(t), <<"** ", "%s", "got ", "%v", ", wanted zero value ", "%v">>,
                              messageAndArgs, <<a, zero>>)
       ELSE Return(t, TRUE)

NonZero(t, T, a, messageAndArgs) ==
    LET zero == ZeroValue(T)
    IN IF GoEq(a, zero)
       THEN ErrorfReturnFalse(Helper(t), <<"** ", "%s", "got zero value ", "%v", ", wanted non-zero">>,
                              messageAndArgs, <<a>>)
       ELSE Return(t, TRUE)

EmptySlice(t, a, messageAndArgs) ==
    IF Len(a.v) > 0
    THEN ErrorfReturnFalse(Helper(t), <<"** ", "%s", "got ", "%v", ", wanted empty slice">>,
                           messageAndArgs, <<a>>)
    ELSE Return(t, TRUE)

\* NonEmptySlice that takes only the nil slice for empty
NonEmptySliceNilOnly(t, a, messageAndArgs) ==
    IF a.isnil
    THEN ErrorfReturnFalse(Helper(t), <<"** ", "%s", "got empty ", "%T", ", wanted non-empty">>,
                           messageAndArgs, <<a>>)
    ELSE Return(t, TRUE)

NonEmptySlice(t, a, messageAndArgs) ==
    IF Len(a.v) = 0
    THEN ErrorfReturnFalse(Helper(t), <<"** ", "%s", "got empty ", "%T", ", wanted non-empty">>,
                           messageAndArgs, <<a>>)
    ELSE Return(t, TRUE)

EmptyMap(t, a, messageAndArgs) ==
    IF Cardinality(DOMAIN a.v) > 0
    THEN ErrorfReturnFalse(Helper(t), <<"** ", "%s", "got ", "%v", ", wanted empty map">>,
                           messageAndArgs, <<a>>)
    ELSE Return(t, TRUE)

NonEmptyMap(t, a, messageAndArgs) ==
    IF Cardinality(DOMAIN a.v) = 0
    THEN ErrorfReturnFalse(Helper(t), <<"** ", "%s", "got empty ", "%T", ", wanted non-empty">>,
                           messageAndArgs, <<a>>)
    ELSE Return(t, TRUE)

Success(t, a, messageAndArgs) ==
    IF ~IsNil(a)
    THEN ErrorfReturnFalse(Helper(t), <<"** ", "%s", "failed: ", "%v">>,
                           messageAndArgs, <<a>>)
    ELSE Return(t, TRUE)

\* Error that compares with == instead of errors.Is
ErrorNoUnwrap(t, a, e, messageAndArgs) ==
    IF IsNil(e)
    THEN Success(Helper(t), a, messageAndArgs)
    ELSE IF IsNil(a)
    THEN ErrorfReturnFalse(Helper(t), <<"** ", "%s", "succeeded, wanted to fail with: ", "%v">>,
                           messageAndArgs, <<e>>)
    ELSE IF a # e
    THEN ErrorfReturnFalse(Helper(t), <<"** ", "%s", "failed with: ", "%v", ", wanted: ", "%v">>,
                           messageAndArgs, <<a, e>>)
    ELSE Return(t, TRUE)

Error(t, a, e, messageAndArgs) ==
    IF IsNil(e)
    THEN Success(Helper(t), a, messageAndArgs)
    ELSE IF IsNil(a)
    THEN ErrorfReturnFalse(Helper(t), <<"** ", "%s", "succeeded, wanted to fail with: ", "%v">>,
                           messageAndArgs, <<e>>)
    ELSE IF ~ErrorsIs(a, e)
    THEN ErrorfReturnFalse(Helper(t), <<"** ", "%s", "failed with: ", "%v", ", wanted: ", "%v">>,
                           messageAndArgs, <<a, e>>)
    ELSE Return(t, TRUE)

\* ErrorMsg without the special case of an empty expected message
ErrorMsgNoEmptyCase(t, a, e, messageAndArgs) ==
    IF IsNil(a)
    THEN ErrorfReturnFalse(Helper(t), <<"** ", "%s", "succeeded, wanted to fail with: ", "%v">>,
                           messageAndArgs, <<e>>)
    ELSE IF Head(a.v).msg # Text(e.v)
    THEN ErrorfReturnFalse(Helper(t), <<"** ", "%s", "failed with: ", "%v", ", wanted: ", "%v">>,
                           messageAndArgs, <<StrV(<<Head(a.v).msg>>), e>>)
    ELSE Return(t, TRUE)

\* e is a Go string
ErrorMsg(t, a, e, messageAndArgs) ==
    IF Text(e.v) = ""
    THEN Success(t, a, messageAndArgs)
    ELSE IF IsNil(a)
    THEN ErrorfReturnFalse(Helper(t), <<"** ", "%s", "succeeded, wanted to fail with: ", "%v">>,
                           messageAndArgs, <<e>>)
    ELSE IF Head(a.v).msg # Text(e.v)
    THEN ErrorfReturnFalse(Helper(t), <<"** ", "%s", "failed with: ", "%v", ", wanted: ", "%v">>,
                           messageAndArgs, <<StrV(<<Head(a.v).msg>>), e>>)
    ELSE Return(t, TRUE)

\* the value of a panic(nil) on a build with the Go 1.21 semantics
PanicNilError == ErrV(<<[id |-> "runtime.PanicNilError", msg |-> "panic called with nil argument"]>>)

\* what recover() returns in the deferred function of capturePanic: nil
\* when f returned; the value f panicked with; for panic(nil), nil on a
\* build with the semantics before Go 1.21 (go 1.20 in go.mod, or
\* GODEBUG=panicnil=1) and a *runtime.PanicNilError otherwise.
recover(f, oldPanicNil) ==
    IF ~f.panics THEN NilV
    ELSE IF IsNil(f.value) THEN (IF oldPanicNil THEN NilV ELSE PanicNilError)
    ELSE f.value

\* capturePanic without the deferred recover(): a panic of f leaves it
capturePanicNoRecover(f, oldPanicNil) ==
    [panicValue |-> NilV, fRuns |-> 1, returned |-> ~f.panics]

\* f runs once; the deferred function runs on both ways out of f and its
\* recover() stops the panic, so capturePanic always returns.
capturePanic(f, oldPanicNil) ==
    [panicValue |-> recover(f, oldPanicNil), fRuns |-> 1, returned |-> TRUE]

WithRuns(out, n) ==
    [t |-> out.t, returned |-> out.returned, ret |-> out.ret, fault |-> out.fault,
     formatted |-> out.formatted, fRuns |-> n]

PanicMsg(t, f, e, messageAndArgs, oldPanicNil) ==
    LET c == capturePanic(f, oldPanicNil)
        act == c.panicValue
    IN  WithRuns(
          IF ~c.returned THEN Panic(t, f.value)
          ELSE IF IsNil(act)
          THEN ErrorfReturnFalse(Helper(t), <<"** ", "%s", "succeeded, wanted to panic with: ", "%v">>,
                                 messageAndArgs, <<e>>)
          ELSE IF FormatV(act) # Text(e.v)
          THEN ErrorfReturnFalse(Helper(t), <<"** ", "%s", "paniced with: ", "%v", ", wanted: ", "%v">>,
                                 messageAndArgs, <<StrV(<<FormatV(act)>>), e>>)
          ELSE Return(t, TRUE),
          c.fRuns)

---------------------------------------------------------------------------
(* The arguments the calls are drawn from. *)

NoOperand == [t |-> "none"]

RECURSIVE SeqsUpTo(_, _)
SeqsUpTo(S, n) ==
    IF n = 0 THEN {<<>>}
    ELSE LET shorter == SeqsUpTo(S, n - 1)
         IN shorter \cup {Append(s, x) : s \in {q \in shorter : Len(q) = n - 1}, x \in S}

Templates == {<<>>, <<"foo">>, <<"x=", "%v">>, <<"%d", "/", "%s">>}
ArgValues == {IntV(42), StrV(<<"boz">>), NilV, PanicOnStringV}
ArgLists == SeqsUpTo(ArgValues, MaxArgs)

WellFormedTails ==
    {<<>>} \cup {<<StrV(f)>> \o args : f \in Templates, args \in ArgLists}
MalformedTails ==
    {<<x>> \o args : x \in {IntV(42), NilV}, args \in {l \in ArgLists : Len(l) < MaxArgs}}
Tails == WellFormedTails \cup MalformedTails

Bools == {BoolV(TRUE), BoolV(FALSE)}
Ints == {IntV(0), IntV(42), IntV(-7)}
Strings == {StrV(<<>>), StrV(<<"abc">>)}
Anys == {NilV, IntV(42), StrV(<<"abc">>), BoolV(FALSE)}
\* the operands of one comparable type T, for T = int, bool, string, any
Comparables(T) ==
    CASE T = "int" -> Ints [] T = "bool" -> Bools [] T = "string" -> Strings [] T = "any" -> Anys
ComparableTypes == {"int", "bool", "string", "any"}

Slices == {SliceV(TRUE, <<>>)} \cup {SliceV(FALSE, s) : s \in SeqsUpTo({12, 34}, MaxLen)}
MapKeys == {7, 42}
Maps == {MapV(TRUE, <<>>)}
        \cup {MapV(FALSE, [k \in S |-> 9]) : S \in {K \in SUBSET MapKeys : Cardinality(K) <= MaxLen}}
Pointers == {PtrV(TRUE, 0), PtrV(FALSE, 0), PtrV(FALSE, 42)}
Times == {TimeV(i, l) : i \in {1, 2}, l \in {"UTC", "CET"}}
Patterns == {PatternV(TRUE, 0), PatternV(FALSE, 1), PatternV(FALSE, 2)}

Sentinels == {[id |-> "fs.ErrNotExist", msg |-> "file does not exist"],
              [id |-> "fs.ErrExist", msg |-> "file already exists"],
              [id |-> "errors.New", msg |-> "file does not exist"]}
\* fmt.Errorf("open: %w", inner)
Wrap(inner) ==
    <<[id |-> "wrapError" \o ToString(Len(inner)), msg |-> "open: " \o Head(inner).msg]>> \o inner
RECURSIVE Chains(_)
Chains(n) ==
    IF n = 1 THEN {<<s>> : s \in Sentinels}
    ELSE Chains(n - 1) \cup {Wrap(c) : c \in Chains(n - 1)}
Errors == {ErrV(c) : c \in Chains(MaxChain)}
MaybeErrors == Errors \cup {NilV}

Messages == {StrV(<<>>), StrV(<<"file does not exist">>),
             StrV(<<"open: file does not exist">>), StrV(<<"foo">>)}

IndexOutOfRange ==
    ErrV(<<[id |-> "runtime.boundsError",
            msg |-> "runtime error: index out of range [2] with length 2"]>>)
\* func() {}, and the functions that panic with a value
Funcs == {[panics |-> FALSE, value |-> NilV]}
         \cup {[panics |-> TRUE, value |-> x] :
                  x \in {StrV(<<"boom">>), IndexOutOfRange, NilV, IntV(42)}}
PanicTexts == {StrV(<<"boom">>), StrV(<<"runtime error: index out of range [2] with length 2">>),
               StrV(<<"<nil>">>), StrV(<<"42">>), StrV(<<"foo">>),
               StrV(<<"panic called with nil argument">>)}

---------------------------------------------------------------------------
(* The state machine: one action per exported function. *)

Init ==
    /\ op = "none"
    /\ actual = NoOperand
    /\ expected = NoOperand
    /\ tail = <<>>
    /\ calls = <<>>
    /\ returned = FALSE
    /\ ret = NilV
    /\ fault = <<>>
    /\ fRuns = 0
    /\ panicnil = FALSE
    /\ prefixRuns = 0

\* the call `name` with operands x, y and tail m ended as `out`
Do(name, x, y, m, out) ==
    /\ op' = name
    /\ actual' = x
    /\ expected' = y
    /\ tail' = m
    /\ calls' = out.t
    /\ returned' = out.returned
    /\ ret' = out.ret
    /\ fault' = out.fault
    /\ prefixRuns' = out.formatted

NoFunc == fRuns' = 0 /\ panicnil' = FALSE

\* a behaviour is one call, made on a TB that has recorded nothing yet
Fresh == op = "none"

CallOK == Fresh /\ \E a \in Bools, m \in Tails :
    Do("OK", a, NoOperand, m, OK(<<>>, a, m)) /\ NoFunc
CallFalse == Fresh /\ \E a \in Bools, m \in Tails :
    Do("False", a, NoOperand, m, False(<<>>, a, m)) /\ NoFunc
CallEq == Fresh /\ \E T \in ComparableTypes, m \in Tails : \E a, e \in Comparables(T) :
    Do("Eq", a, e, m, Eq(<<>>, a, e, m)) /\ NoFunc
CallNotEq == Fresh /\ \E T \in ComparableTypes, m \in Tails : \E a, e \in Comparables(T) :
    Do("NotEq", a, e, m, NotEq(<<>>, a, e, m)) /\ NoFunc
CallDeepEqual == Fresh /\ \E S \in {Slices, Maps}, m \in Tails : \E a, e \in S :
    Do("DeepEqual", a, e, m, DeepEqual(<<>>, a, e, m)) /\ NoFunc
CallNotDeepEqual == Fresh /\ \E S \in {Slices, Maps}, m \in Tails : \E a, e \in S :
    Do("NotDeepEqual", a, e, m, NotDeepEqual(<<>>, a, e, m)) /\ NoFunc
CallMethodEqual == Fresh /\ \E S \in {Times, Patterns}, m \in Tails : \E a, e \in S :
    Do("MethodEqual", a, e, m, MethodEqual(<<>>, a, e, m)) /\ NoFunc
CallNotMethodEqual == Fresh /\ \E S \in {Times, Patterns}, m \in Tails : \E a, e \in S :
    Do("NotMethodEqual", a, e, m, NotMethodEqual(<<>>, a, e, m)) /\ NoFunc
CallNil == Fresh /\ \E a \in Pointers, m \in Tails :
    Do("Nil", a, NoOperand, m, Nil(<<>>, a, m)) /\ NoFunc
CallNonNil == Fresh /\ \E a \in Pointers, m \in Tails :
    Do("NonNil", a, NoOperand, m, NonNil(<<>>, a, m)) /\ NoFunc
\* the type parameter T is kept in `expected`
CallZero == Fresh /\ \E T \in ComparableTypes, m \in Tails : \E a \in Comparables(T) :
    Do("Zero", a, StrV(<<T>>), m, Zero(<<>>, T, a, m)) /\ NoFunc
CallNonZero == Fresh /\ \E T \in ComparableTypes, m \in Tails : \E a \in Comparables(T) :
    Do("NonZero", a, StrV(<<T>>), m, NonZero(<<>>, T, a, m)) /\ NoFunc
CallEmptySlice == Fresh /\ \E a \in Slices, m \in Tails :
    Do("EmptySlice", a, NoOperand, m, EmptySlice(<<>>, a, m)) /\ NoFunc
CallNonEmptySlice == Fresh /\ \E a \in Slices, m \in Tails :
    Do("NonEmptySlice", a, NoOperand, m, NonEmptySlice(<<>>, a, m)) /\ NoFunc
CallEmptyMap == Fresh /\ \E a \in Maps, m \in Tails :
    Do("EmptyMap", a, NoOperand, m, EmptyMap(<<>>, a, m)) /\ NoFunc
CallNonEmptyMap == Fresh /\ \E a \in Maps, m \in Tails :
    Do("NonEmptyMap", a, NoOperand, m, NonEmptyMap(<<>>, a, m)) /\ NoFunc
CallSuccess == Fresh /\ \E a \in MaybeErrors, m \in Tails :
    Do("Success", a, NoOperand, m, Success(<<>>, a, m)) /\ NoFunc
CallError == Fresh /\ \E a \in MaybeErrors, e \in MaybeErrors, m \in Tails :
    Do("Error", a, e, m, Error(<<>>, a, e, m)) /\ NoFunc
CallErrorMsg == Fresh /\ \E a \in MaybeErrors, e \in Messages, m \in Tails :
    Do("ErrorMsg", a, e, m, ErrorMsg(<<>>, a, e, m)) /\ NoFunc
CallPanicMsg == Fresh /\ \E f \in Funcs, e \in PanicTexts, m \in Tails, oldPanicNil \in BOOLEAN :
    LET out == PanicMsg(<<>>, f, e, m, oldPanicNil)
    IN Do("PanicMsg", f, e, m, out) /\ fRuns' = out.fRuns /\ panicnil' = oldPanicNil
CallFormatPrefix == Fresh /\ \E m \in Tails :
    Do("FormatPrefix", NoOperand, NoOperand, m, FormatPrefix(m)) /\ NoFunc
\* prefix is kept in `actual`, args in `expected`
CallAddPrefix == Fresh /\ \E m \in Tails, prefix \in Templates, args \in ArgLists :
    Do("AddPrefix", StrV(prefix), args, m, Return(<<>>, AddPrefix(m, prefix, args))) /\ NoFunc

Next ==
    \/ CallOK \/ CallFalse
    \/ CallEq \/ CallNotEq
    \/ CallDeepEqual \/ CallNotDeepEqual
    \/ CallMethodEqual \/ CallNotMethodEqual
    \/ CallNil \/ CallNonNil
    \/ CallZero \/ CallNonZero
    \/ CallEmptySlice \/ CallNonEmptySlice
    \/ CallEmptyMap \/ CallNonEmptyMap
    \/ CallSuccess \/ CallError \/ CallErrorMsg
    \/ CallPanicMsg
    \/ CallFormatPrefix \/ CallAddPrefix

Spec == Init /\ [][Next]_vars

---------------------------------------------------------------------------
(* What the claims speak of, read off the state after the call. *)

AssertionOps ==
    {"OK", "False", "Eq", "NotEq", "DeepEqual", "NotDeepEqual", "MethodEqual",
     "NotMethodEqual", "Nil", "NonNil", "Zero", "NonZero", "EmptySlice",
     "NonEmptySlice", "EmptyMap", "NonEmptyMap", "Success", "Error", "ErrorMsg",
     "PanicMsg"}

WellFormed(m) == m = <<>> \/ m[1].t = "string"
Malformed(m) == m # <<>> /\ m[1].t # "string"

HelperCall == [m |-> "Helper"]
ErrorfCall(text) == [m |-> "Errorf", text |-> text]
HelperCount == Cardinality({i \in 1..Len(calls) : calls[i].m = "Helper"})
ErrorfCount == Cardinality({i \in 1..Len(calls) : calls[i].m = "Errorf"})

\* the fault that f raises, as the build presents it
Raised == IF IsNil(actual.value) /\ ~panicnil THEN PanicNilError ELSE actual.value

\* e is a itself or is found in a's chain of wrapped causes
InChain(a, e) ==
    \E i \in 1..Len(a.v) : [j \in 1..(Len(a.v) - i + 1) |-> a.v[i + j - 1]] = e.v

\* the asserted condition of the operation called, on the operands given
Holds ==
    CASE op = "OK" -> actual.v = TRUE
      [] op = "False" -> actual.v = FALSE
      [] op = "Eq" -> GoEq(actual, expected)
      [] op = "NotEq" -> ~GoEq(actual, expected)
      [] op = "DeepEqual" -> ReflectDeepEqual(actual, expected)
      [] op = "NotDeepEqual" -> ~ReflectDeepEqual(actual, expected)
      [] op = "MethodEqual" -> Equal(expected, actual)
      [] op = "NotMethodEqual" -> ~Equal(expected, actual)
      [] op = "Nil" -> actual.isnil
      [] op = "NonNil" -> ~actual.isnil
      [] op = "Zero" -> GoEq(actual, ZeroValue(Text(expected.v)))
      [] op = "NonZero" -> ~GoEq(actual, ZeroValue(Text(expected.v)))
      [] op \in {"EmptySlice", "EmptyMap"} -> DOMAIN actual.v = {}
      [] op \in {"NonEmptySlice", "NonEmptyMap"} -> DOMAIN actual.v # {}
      [] op = "Success" -> IsNil(actual)
      [] op = "Error" -> IF IsNil(expected) THEN IsNil(actual)
                         ELSE ~IsNil(actual) /\ InChain(actual, expected)
      [] op = "ErrorMsg" -> IF Text(expected.v) = "" THEN IsNil(actual)
                            ELSE ~IsNil(actual) /\ actual.v[1].msg = Text(expected.v)
      [] op = "PanicMsg" -> actual.panics /\ FormatV(Raised) = Text(expected.v)

\* the documented failure wording of the operation called
Wording ==
    CASE op = "OK" -> "got false, wanted true"
      [] op = "False" -> "got true, wanted false"
      [] op \in {"Eq", "DeepEqual", "MethodEqual"} ->
            "got " \o FormatV(actual) \o ", wanted " \o FormatV(expected)
      [] op \in {"NotEq", "NotDeepEqual", "NotMethodEqual"} ->
            "got " \o FormatV(actual) \o ", wanted anything else"
      [] op = "Nil" -> "got &" \o ToString(actual.v) \o ", wanted nil"
      [] op = "NonNil" -> "got nil " \o actual.t \o ", wanted non-nil"
      [] op = "Zero" -> "got " \o FormatV(actual) \o ", wanted zero value "
                        \o FormatV(ZeroValue(Text(expected.v)))
      [] op = "NonZero" -> "got zero value " \o FormatV(ZeroValue(Text(expected.v)))
                           \o ", wanted non-zero"
      [] op = "EmptySlice" -> "got " \o FormatV(actual) \o ", wanted empty slice"
      [] op = "EmptyMap" -> "got " \o FormatV(actual) \o ", wanted empty map"
      [] op \in {"NonEmptySlice", "NonEmptyMap"} -> "got empty " \o actual.t \o ", wanted non-empty"
      [] op = "Success" -> "failed: " \o FormatV(actual)
      [] op \in {"Error", "ErrorMsg"} ->
            IF (op = "Error" /\ IsNil(expected)) \/ (op = "ErrorMsg" /\ Text(expected.v) = "")
            THEN "failed: " \o FormatV(actual)
            ELSE IF IsNil(actual)
            THEN "succeeded, wanted to fail with: " \o FormatV(expected)
            ELSE "failed with: " \o FormatV(actual) \o ", wanted: " \o FormatV(expected)
      [] op = "PanicMsg" ->
            IF ~actual.panics
            THEN "succeeded, wanted to panic with: " \o FormatV(expected)
            ELSE "paniced with: " \o FormatV(Raised) \o ", wanted: " \o FormatV(expected)

\* "** " + FormatPrefix(tail) + wording, for a well-formed tail
Report == "** " \o FormatPrefix(tail).ret \o Wording

\* the way the call ended, as the functions of the model give it
Outcome ==
    [t |-> calls, returned |-> returned, ret |-> ret, fault |-> fault, formatted |-> prefixRuns]

\* the call returned false after one Helper and one Errorf with "** ", the
\* prefix of the tail and the wording w
Reported(w) ==
    /\ returned /\ ret = FALSE
    /\ calls = <<HelperCall, ErrorfCall("** " \o FormatPrefix(tail).ret \o w)>>

\* the call returned true and the TB was not touched
Passed == returned /\ ret = TRUE /\ calls = <<>>

---------------------------------------------------------------------------
(* The claims. *)

\* C1: for every assertion and every input for which the asserted condition
\* holds, the TB receives no call at all during the call: neither Helper nor
\* Errorf.
C1_NoCallOnSuccess ==
    op \in AssertionOps /\ Holds => calls = <<>>

\* C2: for every assertion and every input for which the asserted condition
\* fails, the tail being well-formed, Helper is called exactly once and Errorf
\* exactly once, with the text "** " + FormatPrefix(tail) + the documented
\* wording of the operation; Error with a nil expected and a non-nil actual
\* error included.
C2_OneHelperOneErrorfOnFailure ==
    op \in AssertionOps /\ ~Holds /\ WellFormed(tail) =>
        /\ HelperCount = 1
        /\ ErrorfCount = 1
        /\ \E i \in 1..Len(calls) : calls[i] = ErrorfCall(Report)

\* C3: an assertion that returns normally returns true iff its asserted
\* condition held on the operands, and false iff it reported through Errorf.
\* (Holds reads the operands only, so the first half also says that the
\* result does not depend on the tail.)
C3_ReturnIsCondition ==
    op \in AssertionOps /\ returned =>
        /\ ret \in BOOLEAN
        /\ ret = TRUE <=> Holds
        /\ ret = FALSE <=> ErrorfCount > 0

\* C4: Error(t, a, nil, tail...) ends exactly as Success(t, a, tail...) does,
\* for every a (nil included) and every tail: the same result and the same
\* sequence of calls on the TB.
C4_ErrorNilIsSuccess ==
    op = "Error" /\ IsNil(expected) => Outcome = Success(<<>>, actual, tail)

\* C5: Error(t, a, e) with a non-nil e: if a is nil it reports "succeeded,
\* wanted to fail with: e" and returns false; if a is non-nil and e is not in
\* a's chain it reports "failed with: a, wanted: e" and returns false; if e is
\* in a's chain it returns true with no report.  (Stated for every well-formed
\* tail, whose prefix then precedes the wording.)
C5_ErrorThreeOutcomes ==
    op = "Error" /\ ~IsNil(expected) /\ WellFormed(tail) =>
        /\ IsNil(actual) =>
              Reported("succeeded, wanted to fail with: " \o expected.v[1].msg)
        /\ ~IsNil(actual) /\ ~InChain(actual, expected) =>
              Reported("failed with: " \o actual.v[1].msg \o ", wanted: " \o expected.v[1].msg)
        /\ ~IsNil(actual) /\ InChain(actual, expected) => Passed

\* C5 happens: a wrapped error is checked against an error that is not in its
\* chain, with a message prefix, and the mismatch is reported
C5_Witness ==
    /\ op = "Error" /\ ~IsNil(expected) /\ ~IsNil(actual)
    /\ Len(actual.v) > 1 /\ ~InChain(actual, expected)
    /\ actual.v[1].msg = expected.v[1].msg
    /\ tail # <<>> /\ WellFormed(tail)
    /\ returned /\ ret = FALSE /\ ErrorfCount = 1

\* C6: ErrorMsg(t, a, e): with e = "" it ends exactly as Success(t, a) does,
\* for every a; otherwise, if a is nil it reports "succeeded, wanted to fail
\* with: e" and returns false; if a.Error() differs from e it reports "failed
\* with: <a.Error()>, wanted: e" and returns false; if a.Error() equals e it
\* returns true with no report.
C6_ErrorMsgOutcomes ==
    op = "ErrorMsg" =>
        /\ Text(expected.v) = "" => Outcome = Success(<<>>, actual, tail)
        /\ Text(expected.v) # "" /\ WellFormed(tail) =>
              /\ IsNil(actual) =>
                    Reported("succeeded, wanted to fail with: " \o Text(expected.v))
              /\ ~IsNil(actual) /\ actual.v[1].msg # Text(expected.v) =>
                    Reported("failed with: " \o actual.v[1].msg \o ", wanted: " \o Text(expected.v))
              /\ ~IsNil(actual) /\ actual.v[1].msg = Text(expected.v) => Passed

\* C6 happens: ErrorMsg with an empty expected message is given an error and
\* reports it the way Success does
C6_Witness ==
    /\ op = "ErrorMsg" /\ Text(expected.v) = "" /\ ~IsNil(actual)
    /\ tail # <<>> /\ WellFormed(tail)
    /\ returned /\ ret = FALSE
    /\ calls = <<HelperCall, ErrorfCall("** " \o FormatPrefix(tail).ret \o "failed: " \o actual.v[1].msg)>>

\* C7: PanicMsg(t, f, e) runs f exactly once under capturePanic and a panic of
\* f never leaves PanicMsg.  If f returns, it reports "succeeded, wanted to
\* panic with: e" and returns false; if f panics with a value whose text
\* differs from e, it reports "paniced with: <text>, wanted: e" and returns
\* false; if the text equals e, it returns true with no report.  capturePanic
\* returns the value f panicked with, and nil only when f returned.
C7_PanicMsgOutcomes ==
    op = "PanicMsg" =>
        /\ fRuns = 1
        /\ WellFormed(tail) => returned
        /\ ~returned => Malformed(tail) /\ fault = FormatPrefix(tail).fault
        /\ capturePanic(actual, panicnil).panicValue = (IF actual.panics THEN Raised ELSE NilV)
        /\ IsNil(capturePanic(actual, panicnil).panicValue) => ~actual.panics
        /\ WellFormed(tail) =>
              /\ ~actual.panics =>
                    Reported("succeeded, wanted to panic with: " \o Text(expected.v))
              /\ actual.panics /\ FormatV(Raised) # Text(expected.v) =>
                    Reported("paniced with: " \o FormatV(Raised) \o ", wanted: " \o Text(expected.v))
              /\ actual.panics /\ FormatV(Raised) = Text(expected.v) => Passed

\* C8: FormatPrefix(tail) returns "" for an empty tail; when tail[0] is a
\* string it returns that format rendered with tail[1:] and followed by ": ",
\* which is never empty; when tail[0] is not a string it panics, naming the
\* type and the value of tail[0], and returns nothing.
C8_FormatPrefix ==
    op = "FormatPrefix" =>
        /\ tail = <<>> => returned /\ ret = "" /\ fault = <<>>
        /\ tail # <<>> /\ tail[1].t = "string" =>
              /\ returned /\ fault = <<>>
              /\ ret = Sprintf(tail[1].v, Tail(tail)) \o ": "
              /\ ret # ""
              /\ Tail(tail) = <<>> /\ Verbs \cap {tail[1].v[i] : i \in 1..Len(tail[1].v)} = {} =>
                    ret = Text(tail[1].v) \o ": "
        /\ tail # <<>> /\ tail[1].t # "string" =>
              /\ ~returned
              /\ Len(fault) = 1 /\ fault[1].t = "error"
              /\ FormatV(fault[1]) =
                    "when passing messageAndArgs to assertion funcs, the first extra argument must be a format string, got "
                    \o TypeName(tail[1]) \o " " \o FormatV(tail[1])
        /\ calls = <<>>

\* C8 happens: the format "x=%v" with the argument 42 gives "x=42: "
C8_Witness ==
    /\ op = "FormatPrefix"
    /\ tail = <<StrV(<<"x=", "%v">>), IntV(42)>>
    /\ returned /\ ret = "x=42: "

\* C9: AddPrefix(tail, prefix, prefixArgs...) returns, when tail[0] is a
\* string, [prefix + ": " + tail[0]] + prefixArgs + tail[1:], of length
\* len(prefixArgs) + len(tail); otherwise [prefix] + prefixArgs + tail, of
\* length 1 + len(prefixArgs) + len(tail).  The first element of the result
\* is always a string, and AddPrefix never panics.
C9_AddPrefix ==
    op = "AddPrefix" =>
        LET prefix == actual
            prefixArgs == expected
            splice == tail # <<>> /\ tail[1].t = "string"
            rest == IF splice THEN Tail(tail) ELSE tail
        IN  /\ returned /\ fault = <<>>
            /\ Len(ret) = IF splice THEN Len(prefixArgs) + Len(tail)
                          ELSE 1 + Len(prefixArgs) + Len(tail)
            /\ ret[1].t = "string"
            /\ Text(ret[1].v) = IF splice THEN Text(prefix.v) \o ": " \o Text(tail[1].v)
                                ELSE Text(prefix.v)
            /\ \A i \in 1..Len(prefixArgs) : ret[1 + i] = prefixArgs[i]
            /\ \A i \in 1..Len(rest) : ret[1 + Len(prefixArgs) + i] = rest[i]

\* C9 happens: a prefix with an argument is put before a tail that has its
\* own format string and argument
C9_Witness ==
    /\ op = "AddPrefix"
    /\ tail # <<>> /\ tail[1].t = "string" /\ Len(tail) > 1
    /\ expected # <<>>
    /\ returned /\ Len(ret) = Len(expected) + Len(tail)

\* C10: for every assertion, a call whose tail is non-empty and does not start
\* with a string panics instead of returning a boolean, whether the asserted
\* condition holds or fails.
C10_MalformedTailPanics ==
    op \in AssertionOps /\ Malformed(tail) => ~returned /\ fault # <<>>

\* the fault that left the call is the one FormatPrefix raises for the tail
FaultIsFormatPrefixs ==
    /\ Malformed(tail)
    /\ Len(fault) = 1 /\ fault[1].t = "error" /\ fault[1].v[1].id = "fmt.Errorf"
    /\ fault[1] = FormatPrefix(tail).fault[1]

C12_TailFormattedOnFailureOnly ==
    op \in AssertionOps =>
        /\ Holds => prefixRuns = 0 /\ returned /\ fault = <<>>
        /\ prefixRuns > 0 => ~Holds
        /\ prefixRuns <= 1

\* the positive/negative pairs, each operation with its opposite
Opposite(name) ==
    CASE name = "OK" -> "False" [] name = "False" -> "OK"
      [] name = "Eq" -> "NotEq" [] name = "NotEq" -> "Eq"
      [] name = "DeepEqual" -> "NotDeepEqual" [] name = "NotDeepEqual" -> "DeepEqual"
      [] name = "MethodEqual" -> "NotMethodEqual" [] name = "NotMethodEqual" -> "MethodEqual"
      [] name = "Nil" -> "NonNil" [] name = "NonNil" -> "Nil"
      [] name = "Zero" -> "NonZero" [] name = "NonZero" -> "Zero"
      [] name = "EmptySlice" -> "NonEmptySlice" [] name = "NonEmptySlice" -> "EmptySlice"
      [] name = "EmptyMap" -> "NonEmptyMap" [] name = "NonEmptyMap" -> "EmptyMap"
PairedOps ==
    {"OK", "False", "Eq", "NotEq", "DeepEqual", "NotDeepEqual", "MethodEqual",
     "NotMethodEqual", "Nil", "NonNil", "Zero", "NonZero", "EmptySlice",
     "NonEmptySlice", "EmptyMap", "NonEmptyMap"}
ContainerOps == {"EmptySlice", "NonEmptySlice", "EmptyMap", "NonEmptyMap"}

\* the call `name` on a fresh TB with operands a, e (as the state keeps them)
\* and tail m
Run(name, a, e, m) ==
    CASE name = "OK" -> OK(<<>>, a, m)
      [] name = "False" -> False(<<>>, a, m)
      [] name = "Eq" -> Eq(<<>>, a, e, m)
      [] name = "NotEq" -> NotEq(<<>>, a, e, m)
      [] name = "DeepEqual" -> DeepEqual(<<>>, a, e, m)
      [] name = "NotDeepEqual" -> NotDeepEqual(<<>>, a, e, m)
      [] name = "MethodEqual" -> MethodEqual(<<>>, a, e, m)
      [] name = "NotMethodEqual" -> NotMethodEqual(<<>>, a, e, m)
      [] name = "Nil" -> Nil(<<>>, a, m)
      [] name = "NonNil" -> NonNil(<<>>, a, m)
      [] name = "Zero" -> Zero(<<>>, Text(e.v), a, m)
      [] name = "NonZero" -> NonZero(<<>>, Text(e.v), a, m)
      [] name = "EmptySlice" -> EmptySlice(<<>>, a, m)
      [] name = "NonEmptySlice" -> NonEmptySlice(<<>>, a, m)
      [] name = "EmptyMap" -> EmptyMap(<<>>, a, m)
      [] name = "NonEmptyMap" -> NonEmptyMap(<<>>, a, m)

ErrorfsIn(t) == Cardinality({i \in 1..Len(t) : t[i].m = "Errorf"})
\* the same call made by the other member of the pair
Sibling == Run(Opposite(op), actual, expected, tail)
\* the same call on the container of the other nil-ness
OtherNilness == Run(op, [actual EXCEPT !.isnil = ~@], expected, tail)

\* C13: the two members of a pair are exactly complementary: on the same
\* operands and a well-formed tail both return, exactly one returns true, and
\* the other returns false and reports once; a nil slice or map and an
\* initialized one of length zero get the same outcome from both members.
C13_PairsComplementary ==
    op \in PairedOps /\ WellFormed(tail) =>
        LET other == Sibling
        IN  /\ returned /\ other.returned
            /\ ret # other.ret
            /\ ErrorfCount = (IF ret THEN 0 ELSE 1)
            /\ ErrorfsIn(other.t) = (IF other.ret THEN 0 ELSE 1)
            /\ ret = Holds
            /\ op \in ContainerOps /\ DOMAIN actual.v = {} =>
                  LET same == OtherNilness
                  IN  /\ same.returned /\ same.ret = ret
                      /\ same.t = calls
                      /\ other.ret = (op \in {"NonEmptySlice", "NonEmptyMap"})

\* NonEmptySlice on an initialized slice of length zero fails and reports,
\* where EmptySlice returns true, as both do on the nil slice
C13_Witness ==
    /\ op = "NonEmptySlice" /\ ~actual.isnil /\ Len(actual.v) = 0
    /\ tail # <<>> /\ WellFormed(tail)
    /\ returned /\ ret = FALSE /\ ErrorfCount = 1
    /\ Sibling.returned /\ Sibling.ret = TRUE /\ Sibling.t = <<>>
    /\ OtherNilness.ret = FALSE

====
